---- MODULE Spec2Model ----
(***************************************************************************)
(* Model of examples/pokemon-service-server-skd-patch/src/hyper_compat.rs: *)
(* the newtype HyperIncoming around hyper::body::Incoming and the three    *)
(* From conversions that lead a body into a ByteStream.                    *)
(*                                                                         *)
(* A value that Rust moves is held in an "option set": {} when the place   *)
(* holds nothing (never bound, or moved out), {v} when it owns v.  A clone *)
(* would show as the same body owned by two places at once.                *)
(***************************************************************************)
EXTENDS Naturals, Sequences, FiniteSets

(* ------------------------------ bounds -------------------------------- *)

\* Longest body, in frames, that is enumerated.
MaxFrames == 3

(* --------------------------- the body type ---------------------------- *)

\* Payloads a data frame may carry.
Chunks == {<<1>>, <<2, 3>>}

\* Failures the transport may report while the body is read.
ErrKinds == {"ConnectionReset", "MalformedChunk"}

DataFrame(c) == [kind |-> "data", bytes |-> c, err |-> "none"]

ErrFrame(e) == [kind |-> "err", bytes |-> <<>>, err |-> e]

DataFrames == {DataFrame(c) : c \in Chunks}

ErrFrames == {ErrFrame(e) : e \in ErrKinds}

SeqsUpTo(S, n) == UNION {[1..k -> S] : k \in 0..n}

\* hyper::body::Incoming: the frames still to be delivered.  A transport
\* failure ends the body, so an error frame can only be the last one.
Bodies ==
    SeqsUpTo(DataFrames, MaxFrames)
        \cup {Append(p, f) : p \in SeqsUpTo(DataFrames, MaxFrames - 1), f \in ErrFrames}

(* ------------------------- the byte-stream type ----------------------- *)

\* ByteStream::from_body_1_x: the byte-stream owns the body and reads from it.
from_body_1_x(b) == [inner |-> b]

Outcome(k, c, e) == [kind |-> k, bytes |-> c, err |-> e]

\* One read of a byte-stream: the outcome it yields.
next_outcome(s) ==
    IF s.inner = <<>> THEN Outcome("end", <<>>, "none")
    ELSE LET f == Head(s.inner)
         IN  IF f.kind = "data" THEN Outcome("chunk", f.bytes, "none")
             ELSE Outcome("err", <<>>, f.err)

\* One read of a byte-stream: the byte-stream it leaves.
next_stream(s) == IF s.inner = <<>> THEN s ELSE [inner |-> Tail(s.inner)]

(* ------------------------------ the adapter --------------------------- *)

\* Mutant: the wrapper is built around the body with its first frame read off.
HyperIncoming_advances(b) == IF b = <<>> THEN <<b>> ELSE <<Tail(b)>>

\* Mutant: the wrapper holds the body twice.
HyperIncoming_two(b) == <<b, b>>

\* pub struct HyperIncoming(pub hyper::body::Incoming): the tuple constructor.
HyperIncoming(b) == <<b>>

\* wrapper.0
Field0(w) == w[1]

\* Mutant: the wrapper is built from the body with its first frame repeated.
HyperIncoming_from_dup(b) == IF b = <<>> THEN HyperIncoming(b) ELSE HyperIncoming(<<Head(b)>> \o b)

\* Mutant: the wrapper is built around an empty body.
HyperIncoming_from_empty(b) == HyperIncoming(<<>>)

\* impl From<hyper::body::Incoming> for HyperIncoming
HyperIncoming_from(b) == HyperIncoming(b)

\* Mutant: the first frame is dropped before the byte-stream is built.
ByteStream_from_wrapper_skip(w) ==
    from_body_1_x(IF Field0(w) = <<>> THEN <<>> ELSE Tail(Field0(w)))

\* Mutant: transport errors are filtered out of the body.
ByteStream_from_wrapper_mask(w) ==
    from_body_1_x(SelectSeq(Field0(w), LAMBDA f : f.kind = "data"))

\* Mutant: an empty body is turned into an error of the adapter's own.
ByteStream_from_wrapper_fail(w) ==
    IF Field0(w) = <<>> THEN from_body_1_x(<<ErrFrame("AdapterError")>>)
    ELSE from_body_1_x(Field0(w))

\* impl From<HyperIncoming> for ByteStream
ByteStream_from_wrapper(w) == from_body_1_x(Field0(w))

\* The invocations of ByteStream::from_body_1_x that From<HyperIncoming> makes:
\* one, on the wrapper's field.
from_wrapper_calls(w) == <<Field0(w)>>

\* impl From<hyper::body::Incoming> for ByteStream, as a function of the body:
\* HyperIncoming::from(body).into()
ByteStream_from_body(b) == ByteStream_from_wrapper(HyperIncoming_from(b))

(* ------------------------------- state -------------------------------- *)

VARIABLES
    orig,       \* the body value the caller started with (never changes)
    body,       \* the caller's binding of the body: {} once moved
    param,      \* the `body` parameter of From<Incoming> for ByteStream
    wrapper,    \* the HyperIncoming value in existence, {} when there is none
    stream,     \* the ByteStream that a conversion returned
    pc,         \* position inside From<Incoming> for ByteStream
    path,       \* the public operation the caller used last
    calls,      \* arguments of the invocations of ByteStream::from_body_1_x
    out,        \* outcomes read so far from `stream`
    refStream,  \* ByteStream::from_body_1_x called directly on the same body
    refOut      \* outcomes read so far from `refStream`

vars == <<orig, body, param, wrapper, stream, pc, path, calls, out, refStream, refOut>>

reads == <<out, refStream, refOut>>

Init ==
    /\ orig \in Bodies
    /\ body = {orig}
    /\ param = {}
    /\ wrapper = {}
    /\ stream = {}
    /\ pc = "idle"
    /\ path = "none"
    /\ calls = <<>>
    /\ out = <<>>
    /\ refStream = from_body_1_x(orig)
    /\ refOut = <<>>

(* ------------------- From<Incoming> for ByteStream -------------------- *)

\* fn from(body: hyper::body::Incoming): the caller's body moves into the
\* parameter.
ConvertBegin ==
    /\ pc = "idle"
    /\ body # {}
    /\ param' = body
    /\ body' = {}
    /\ pc' = "convert"
    /\ path' = "raw"
    /\ UNCHANGED <<orig, wrapper, stream, calls, reads>>

\* Mutant: the body is cloned into the wrapper and stays in the parameter.
ConvertWrap_clone ==
    /\ pc = "convert"
    /\ wrapper' = {HyperIncoming_from(b) : b \in param}
    /\ pc' = "into"
    /\ UNCHANGED <<orig, body, param, stream, path, calls, reads>>

\* HyperIncoming::from(body): the parameter moves into a fresh wrapper.
ConvertWrap ==
    /\ pc = "convert"
    /\ wrapper' = {HyperIncoming_from(b) : b \in param}
    /\ param' = {}
    /\ pc' = "into"
    /\ UNCHANGED <<orig, body, stream, path, calls, reads>>

\* From<HyperIncoming> for ByteStream on the wrapper that is in existence:
\* the field moves into ByteStream::from_body_1_x and the wrapper is gone.
IntoByteStream ==
    /\ wrapper # {}
    /\ stream' = {ByteStream_from_wrapper(w) : w \in wrapper}
    /\ calls' = calls \o from_wrapper_calls(CHOOSE w \in wrapper : TRUE)
    /\ wrapper' = {}

\* Mutant: the byte-stream is returned while the wrapper is kept.
ConvertInto_keeps ==
    /\ pc = "into"
    /\ wrapper # {}
    /\ stream' = {ByteStream_from_wrapper(w) : w \in wrapper}
    /\ calls' = calls \o from_wrapper_calls(CHOOSE w \in wrapper : TRUE)
    /\ pc' = "idle"
    /\ UNCHANGED <<orig, body, param, wrapper, path, reads>>

\* .into(): the wrapper is converted and the byte-stream returned.
ConvertInto ==
    /\ pc = "into"
    /\ IntoByteStream
    /\ pc' = "idle"
    /\ UNCHANGED <<orig, body, param, path, reads>>

(* --------------- the public operations, used one by one --------------- *)

\* The caller calls HyperIncoming::from(body) itself.
WrapExplicit ==
    /\ pc = "idle"
    /\ body # {}
    /\ wrapper' = {HyperIncoming_from(b) : b \in body}
    /\ body' = {}
    /\ path' = "from"
    /\ UNCHANGED <<orig, param, stream, pc, calls, reads>>

\* The caller writes HyperIncoming(body): the struct and its field are pub.
ConstructExplicit ==
    /\ pc = "idle"
    /\ body # {}
    /\ wrapper' = {HyperIncoming(b) : b \in body}
    /\ body' = {}
    /\ path' = "ctor"
    /\ UNCHANGED <<orig, param, stream, pc, calls, reads>>

\* The caller takes wrapper.0 back out of a wrapper it holds.
UnwrapExplicit ==
    /\ pc = "idle"
    /\ wrapper # {}
    /\ body' = {Field0(w) : w \in wrapper}
    /\ wrapper' = {}
    /\ path' = IF path = "from" THEN "from.0" ELSE "ctor.0"
    /\ UNCHANGED <<orig, param, stream, pc, calls, reads>>

\* The caller calls ByteStream::from(wrapper) on a wrapper it holds.
IntoExplicit ==
    /\ pc = "idle"
    /\ IntoByteStream
    /\ UNCHANGED <<orig, body, param, pc, path, reads>>

(* ------------------------------- reading ------------------------------ *)

Ended(o) == o # <<>> /\ o[Len(o)].kind = "end"

\* The caller reads the converted byte-stream once.
ReadStream ==
    /\ pc = "idle"
    /\ stream # {}
    /\ ~Ended(out)
    /\ \E s \in stream :
          /\ out' = Append(out, next_outcome(s))
          /\ stream' = {next_stream(s)}
    /\ UNCHANGED <<orig, body, param, wrapper, pc, path, calls, refStream, refOut>>

\* The directly constructed byte-stream is read once (by the same single
\* thread, so not while a conversion is running).
ReadRef ==
    /\ pc = "idle"
    /\ ~Ended(refOut)
    /\ refOut' = Append(refOut, next_outcome(refStream))
    /\ refStream' = next_stream(refStream)
    /\ UNCHANGED <<orig, body, param, wrapper, stream, pc, path, calls, out>>

Next ==
    \/ ConvertBegin
    \/ ConvertWrap
    \/ ConvertInto
    \/ WrapExplicit
    \/ ConstructExplicit
    \/ UnwrapExplicit
    \/ IntoExplicit
    \/ ReadStream
    \/ ReadRef

Spec == Init /\ [][Next]_vars

\* From<Incoming> for ByteStream is synchronous straight-line code: once
\* entered it runs to its return.  What the caller does next is up to it.
FairSpec == Spec /\ WF_vars(ConvertWrap) /\ WF_vars(ConvertInto)

(* ------------------------- vocabulary of the claims ------------------- *)

Min(a, b) == IF a <= b THEN a ELSE b

IsPrefix(p, q) == Len(p) <= Len(q) /\ \A i \in 1..Len(p) : p[i] = q[i]

RECURSIVE Concat(_)
\* The payloads of a sequence of frames or outcomes, joined in order.
Concat(fs) == IF fs = <<>> THEN <<>> ELSE Head(fs).bytes \o Concat(Tail(fs))

NoErrors(b) == \A i \in 1..Len(b) : b[i].kind = "data"

\* From<Incoming> for ByteStream has been called and has returned.
ConvertReturned == path = "raw" /\ pc = "idle"

\* Which place owns the body: the caller, the parameter of the conversion,
\* the wrapper, the byte-stream.
OwnerRank ==
    IF body # {} THEN 0 ELSE IF param # {} THEN 1 ELSE IF wrapper # {} THEN 2 ELSE 3

Owners ==
    Cardinality(body) + Cardinality(param)
        + Cardinality(wrapper) + Cardinality(stream)

(* -------------------------------- claims ------------------------------ *)

\* C1: the byte-stream that ByteStream::from(body) returns and the one that
\* ByteStream::from_body_1_x builds directly on the same body yield the same
\* outcome (chunk, error, end of stream) at every read both have made.
C1_Transparent ==
    path = "raw" =>
        \A i \in 1..Min(Len(out), Len(refOut)) : out[i] = refOut[i]

C1_Witness ==
    /\ path = "raw"
    /\ Ended(out) /\ Ended(refOut)
    /\ Len(out) = 3 /\ out[2].kind = "err" /\ out = refOut

\* C2: a body wrapped by HyperIncoming::from and taken back out through field
\* .0 is the body that was wrapped.
C2_WrapUnwrapIdentity ==
    /\ (path = "from" /\ wrapper # {}) => {Field0(w) : w \in wrapper} = {orig}
    /\ path = "from.0" => body = {orig}

C2_Witness == path = "from.0" /\ body = {orig} /\ Len(orig) >= 2

\* C3: a transport error at position i of the body is the outcome of read i
\* of the converted byte-stream, with the same error kind, and the
\* byte-stream reports no error the body does not hold at that position.
C3_ErrorSurfaces ==
    path = "raw" =>
        \A i \in 1..Len(out) :
            /\ (i <= Len(orig) /\ orig[i].kind = "err")
                   => out[i] = Outcome("err", <<>>, orig[i].err)
            /\ out[i].kind = "err"
                   => (i <= Len(orig) /\ orig[i] = ErrFrame(out[i].err))

C3_Witness ==
    /\ path = "raw"
    /\ Len(out) >= 2
    /\ out[1].kind = "chunk"
    /\ out[Len(out)] = Outcome("err", <<>>, "ConnectionReset")
    /\ orig[Len(out)] = ErrFrame("ConnectionReset")

\* C4: for a body with no error frame, what has been read from the converted
\* byte-stream is always a prefix of the body's bytes, and is exactly the
\* body's bytes once the end of the stream has been read.
C4_BytesPreserved ==
    (path = "raw" /\ NoErrors(orig)) =>
        /\ IsPrefix(Concat(out), Concat(orig))
        /\ Ended(out) => Concat(out) = Concat(orig)

C4_Witness ==
    /\ path = "raw"
    /\ Ended(out)
    /\ orig = <<DataFrame(<<2, 3>>), DataFrame(<<1>>)>>
    /\ Concat(out) = <<2, 3, 1>>

\* C5: when ByteStream::from(body) returns, what it returns is what
\* ByteStream::from_body_1_x gives for that body, and the converted
\* byte-stream never reports an error that the body does not hold.
C5_NoOwnFailure ==
    /\ (ConvertReturned /\ out = <<>>) => stream = {from_body_1_x(orig)}
    /\ path = "raw" =>
          \A i \in 1..Len(out) :
              out[i].kind = "err" => ErrFrame(out[i].err) \in {orig[j] : j \in 1..Len(orig)}

C5_Witness ==
    /\ ConvertReturned
    /\ out = <<>>
    /\ stream = {from_body_1_x(orig)}
    /\ orig = <<>>

\* C6: a step in which HyperIncoming::from brings a wrapper into existence
\* yields a wrapper around the body as it was, takes the body away from the
\* place that held it, and changes nothing else; and the step that follows
\* the entry into ByteStream::from(body) always yields a wrapper.
C6_WrapFrame ==
    [][ /\ (wrapper = {} /\ wrapper' # {} /\ path' \in {"raw", "from"}) =>
            /\ wrapper' = {<<b>> : b \in body \cup param}
            /\ body' = {} /\ param' = {}
            /\ UNCHANGED <<orig, stream, calls, out, refStream, refOut>>
        /\ (pc = "convert" /\ pc' # "convert") => wrapper' # {}
      ]_vars

C6_Witness ==
    /\ path = "from"
    /\ wrapper = {<<orig>>}
    /\ body = {}
    /\ Len(orig) >= 2

\* C7: there is at most one wrapper, every wrapper in existence has exactly
\* one field and that field is a body value, and between the construction of
\* the wrapper inside ByteStream::from(body) and its consumption the wrapper
\* is there.
C7_WrapperWellFormed ==
    /\ Cardinality(wrapper) <= 1
    /\ \A w \in wrapper : Len(w) = 1 /\ Field0(w) \in Bodies
    /\ pc = "into" => wrapper # {}

C7_Witness == pc = "into" /\ wrapper = {<<orig>>} /\ Len(orig) >= 1

\* C8: the body always has exactly one owner; every step of
\* ByteStream::from(body) hands it to the next owner in the order caller,
\* parameter, wrapper, byte-stream; and once ByteStream::from(body) has
\* returned, only the byte-stream holds it.
C8_LinearOwnership ==
    /\ [](Owners = 1)
    /\ [][(pc # "idle" \/ pc' # "idle") => OwnerRank' = OwnerRank + 1]_vars
    /\ [](ConvertReturned => (body = {} /\ param = {} /\ wrapper = {} /\ stream # {}))

C8_Witness ==
    /\ ConvertReturned
    /\ OwnerRank = 3
    /\ Owners = 1
    /\ calls = <<orig>>
    /\ Len(orig) >= 1

\* C9 as stated: a wrapper exists only while a conversion is running, a
\* wrapper that goes away has produced a byte-stream, and every wrapper is
\* eventually consumed.
C9_Original ==
    /\ [](wrapper # {} => pc = "into")
    /\ [][(wrapper # {} /\ wrapper' = {}) => Len(calls') = Len(calls) + 1]_vars
    /\ (wrapper # {}) ~> (wrapper = {})

\* C9 amended: the wrapper that ByteStream::from(body) builds is there right
\* after it is built, is consumed by the next step of the conversion, which
\* invokes the byte-stream constructor once and returns the byte-stream, and
\* is gone when the conversion has returned; the conversion always gets that
\* far.  A wrapper the caller builds itself lives as long as the caller
\* keeps it.
C9_Amended ==
    /\ [](pc = "into" => wrapper # {})
    /\ [][pc = "into" =>
            /\ wrapper' = {} /\ stream' # {} /\ pc' = "idle"
            /\ Len(calls') = Len(calls) + 1]_vars
    /\ [](ConvertReturned => wrapper = {})
    /\ [](Len(calls) <= 1)
    /\ (pc = "into") ~> (ConvertReturned /\ wrapper = {} /\ stream # {})

C9_Witness == ConvertReturned /\ wrapper = {} /\ stream # {} /\ Len(calls) = 1

\* C10: a byte-stream returned for the raw body is the one that the
\* conversion of HyperIncoming(body) gives, a byte-stream returned for an
\* explicitly built wrapper is the one that the conversion of the raw body
\* gives, and in both cases ByteStream::from_body_1_x has been invoked once,
\* on the caller's body.
C10_PathsAgree ==
    (stream # {} /\ out = <<>>) =>
        /\ path = "raw" => stream = {ByteStream_from_wrapper(HyperIncoming(orig))}
        /\ path = "ctor" => stream = {ByteStream_from_body(orig)}
        /\ calls = <<orig>>

C10_Witness ==
    /\ path = "ctor"
    /\ stream # {}
    /\ out = <<>>
    /\ calls = <<orig>>
    /\ Len(orig) >= 2
====
